---------------------------- MODULE Spec2Model ----------------------------
(***************************************************************************)
(* Model of src/eda_darah_insight.py: the script that loads the facility   *)
(* and the state blood-donation tables, cleans them, compares the daily    *)
(* totals of the two tables date by date, and derives the per-hospital,    *)
(* yearly and monthly totals.                                              *)
(*                                                                         *)
(* Representation.                                                         *)
(*   - A text (str) is a sequence of one-character strings, the characters *)
(*     being printable ASCII.  A cell that holds no value (NaN / NaT) is   *)
(*     the empty sequence: read_csv never yields an empty text, it yields  *)
(*     NaN for it.                                                         *)
(*   - A name that read_csv has turned into a number is <<"number", m, k>> *)
(*     (the value m / 10^k, k least) or <<"inf", 1>>, <<"inf", -1>>; one   *)
(*     turned into a boolean is <<"bool", b>>.  The number cells           *)
(*     considered are those whose m and 10^k stay below 2^31.              *)
(*   - A number that may be NaN (a column after index alignment) is <<v>>  *)
(*     or NaN.                                                             *)
(*   - A raw date cell is the text "YYYY-MM-DD" kept as its three fields   *)
(*     <<y, m, d>>; a Timestamp is <<y, m, d>> of a real calendar day.     *)
(*   - A DataFrame is the sequence of its rows (records); a Series is the  *)
(*     sequence of its [key, val] entries in index order.                  *)
(***************************************************************************)
EXTENDS Integers, Sequences, FiniteSets

VARIABLES
    facility_csv,        \* donations_facility.csv: rows [hospital, date, daily]
    state_csv,           \* donations_state.csv: rows [state, date, daily]
    state_columns,       \* the header of donations_state.csv
    pc,                  \* the statement block the script is about to run
    facility_df,
    state_df,
    facility_daily_sum,
    state_daily_sum,
    verification_df,
    mismatches,
    mismatch_preview,    \* mismatches.head(10), what line 91 prints
    facility_totals,
    yearly_facility,
    yearly_state,
    facility_blood,      \* facility_df[blood_types].sum(), the 'blood_a' entry
    state_blood,
    facility_monthly,    \* assigned at line 235, which no run reaches
    state_monthly

vars == <<facility_csv, state_csv, state_columns, pc, facility_df, state_df,
          facility_daily_sum, state_daily_sum, verification_df, mismatches,
          mismatch_preview, facility_totals, yearly_facility, yearly_state,
          facility_blood, state_blood, facility_monthly, state_monthly>>

-----------------------------------------------------------------------------
(* Missing values *)

NaN == <<>>

NaT == <<>>

Num(v) == <<v>>

-----------------------------------------------------------------------------
(* Texts *)

\* the printable ASCII characters in code-point order: those from 32 to 95
\* and those from 97 to 126 (the grave accent, 96, is left out: a string
\* constant cannot hold it)
AsciiTo95 ==
    <<" ","!","\"","#","$","%","&","'","(",")","*","+",
      ",","-",".","/","0","1","2","3","4","5","6","7",
      "8","9",":",";","<","=",">","?","@","A","B","C",
      "D","E","F","G","H","I","J","K","L","M","N","O",
      "P","Q","R","S","T","U","V","W","X","Y","Z","[",
      "\\","]","^","_">>

AsciiFrom97 ==
    <<"a","b","c","d","e","f","g","h","i","j","k","l","m",
      "n","o","p","q","r","s","t","u","v","w","x","y","z",
      "{","|","}","~">>

UpperLetters ==
    <<"A","B","C","D","E","F","G","H","I","J","K","L","M",
      "N","O","P","Q","R","S","T","U","V","W","X","Y","Z">>

LowerLetters ==
    <<"a","b","c","d","e","f","g","h","i","j","k","l","m",
      "n","o","p","q","r","s","t","u","v","w","x","y","z">>

DigitChars == <<"0","1","2","3","4","5","6","7","8","9">>

PosIn(seq, c) == CHOOSE i \in 1..Len(seq) : seq[i] = c

IsIn(seq, c) == \E i \in 1..Len(seq) : seq[i] = c

\* ord(c) of a printable ASCII character
Ord(c) ==
    IF IsIn(AsciiTo95, c) THEN 31 + PosIn(AsciiTo95, c)
    ELSE 96 + PosIn(AsciiFrom97, c)

\* str.lower() on one character: only the letters A-Z change
lower_char(c) ==
    IF IsIn(UpperLetters, c) THEN LowerLetters[PosIn(UpperLetters, c)] ELSE c

\* Series.str.lower() on one cell: NaN stays NaN
str_lower(s) ==
    IF s = NaN THEN NaN ELSE [i \in 1..Len(s) |-> lower_char(s[i])]

\* Python's str ordering: lexicographic by code point; a proper prefix is less
StrLess(a, b) ==
    \E k \in 0..Len(a) :
        /\ k <= Len(b)
        /\ \A i \in 1..k : a[i] = b[i]
        /\ \/ k = Len(a) /\ k < Len(b)
           \/ k < Len(a) /\ k < Len(b) /\ Ord(a[k + 1]) < Ord(b[k + 1])

H1 == <<"H","1">>

H2 == <<"H","2">>

RegionA == <<"R","e","g","i","o","n","A">>

Malaysia == <<"M","a","l","a","y","s","i","a">>

MALAYSIA == <<"M","A","L","A","Y","S","I","A">>

malaysia == <<"m","a","l","a","y","s","i","a">>

Unknown == <<"U","n","k","n","o","w","n">>

NA == <<"N","A">>

\* the texts read_csv turns into NaN: pandas' default na_values
NaValues ==
    {<<>>,
     <<"#","N","/","A">>,
     <<"#","N","/","A"," ","N","/","A">>,
     <<"#","N","A">>,
     <<"-","1",".","#","I","N","D">>,
     <<"-","1",".","#","Q","N","A","N">>,
     <<"-","N","a","N">>,
     <<"-","n","a","n">>,
     <<"1",".","#","I","N","D">>,
     <<"1",".","#","Q","N","A","N">>,
     <<"<","N","A",">">>,
     <<"N","/","A">>,
     <<"N","A">>,
     <<"N","U","L","L">>,
     <<"N","a","N">>,
     <<"N","o","n","e">>,
     <<"n","/","a">>,
     <<"n","a","n">>,
     <<"n","u","l","l">>}

\* read_csv on one cell of a column that stays text (dtype object)
read_cell(text) == IF text \in NaValues THEN NaN ELSE text

-----------------------------------------------------------------------------
(* The column types read_csv infers for a name column *)

RECURSIVE lstrip(_)
lstrip(t) == IF t # <<>> /\ t[1] = " " THEN lstrip(Tail(t)) ELSE t

RECURSIVE rstrip(_)
rstrip(t) ==
    IF t # <<>> /\ t[Len(t)] = " " THEN rstrip(SubSeq(t, 1, Len(t) - 1)) ELSE t

HasSign(t) == t # <<>> /\ t[1] \in {"+", "-"}

\* a cell without the blanks around it and without its sign
Unsigned(t) ==
    LET u == rstrip(lstrip(t)) IN IF HasSign(u) THEN Tail(u) ELSE u

IsDigit(c) == IsIn(DigitChars, c)

\* the parser's spellings of infinity, compared without regard to case
InfWords ==
    {<<"i","n","f">>, <<"i","n","f","i","n","i","t","y">>}

\* the cell is infinity: one of the words, with an optional sign and no blanks
IsInfText(t) ==
    LET l == str_lower(t)
    IN  (IF HasSign(l) THEN Tail(l) ELSE l) \in InfWords

\* digits with at most one decimal point
IsDecimalText(u) ==
    /\ \E i \in 1..Len(u) : IsDigit(u[i])
    /\ \A i \in 1..Len(u) : IsDigit(u[i]) \/ u[i] = "."
    /\ Cardinality({i \in 1..Len(u) : u[i] = "."}) <= 1

\* what follows the exponent mark: digits with an optional sign
IsExponentText(x) ==
    LET d == IF HasSign(x) THEN Tail(x) ELSE x
    IN  d # <<>> /\ \A i \in 1..Len(d) : IsDigit(d[i])

\* the positions of the exponent marks of a cell
ExponentMarks(u) == {i \in 1..Len(u) : u[i] \in {"e", "E"}}

\* the part of an unsigned cell before its exponent mark
Mantissa(u) ==
    IF ExponentMarks(u) = {} THEN u
    ELSE SubSeq(u, 1, (CHOOSE p \in ExponentMarks(u) :
                           \A q \in ExponentMarks(u) : p <= q) - 1)

\* the part of an unsigned cell after its exponent mark
ExponentPart(u) == SubSeq(u, Len(Mantissa(u)) + 2, Len(u))

\* the number parser accepts the cell: a decimal with an optional sign before
\* it, an optional exponent after it and blanks around it, or infinity
IsNumberText(t) ==
    LET u == Unsigned(t)
    IN  \/ /\ IsDecimalText(Mantissa(u))
           /\ ExponentMarks(u) # {} => IsExponentText(ExponentPart(u))
        \/ IsInfText(t)

RECURSIVE DigitsValue(_)
DigitsValue(ds) ==
    IF ds = <<>> THEN 0
    ELSE 10 * DigitsValue(SubSeq(ds, 1, Len(ds) - 1))
            + (PosIn(DigitChars, ds[Len(ds)]) - 1)

RECURSIVE Pow10(_)
Pow10(k) == IF k = 0 THEN 1 ELSE 10 * Pow10(k - 1)

RECURSIVE Reduced(_, _)
\* the number m / 10^k, written without trailing decimal zeros, so that equal
\* numbers ("1", "1.0", "01", "10e-1") are equal values
Reduced(m, k) ==
    IF k > 0 /\ m % 10 = 0 THEN Reduced(m \div 10, k - 1)
    ELSE <<"number", m, k>>

\* the value of the exponent of an unsigned cell, 0 without one
exponent_value(u) ==
    LET x == ExponentPart(u)
        n == DigitsValue(SelectSeq(x, IsDigit))
    IN  IF ExponentMarks(u) = {} THEN 0
        ELSE IF x[1] = "-" THEN 0 - n ELSE n

\* the int64 / float64 value of a number cell
number_value(t) ==
    LET s == rstrip(lstrip(t))
        u == Unsigned(t)
        mant == Mantissa(u)
        point == {i \in 1..Len(mant) : mant[i] = "."}
        k == IF point = {} THEN 0 ELSE Len(mant) - (CHOOSE i \in point : TRUE)
        mag == DigitsValue(SelectSeq(mant, IsDigit))
        m == IF s[1] = "-" THEN 0 - mag ELSE mag
        shift == k - exponent_value(u)
    IN  IF IsInfText(t) THEN <<"inf", IF t[1] = "-" THEN 0 - 1 ELSE 1>>
        ELSE IF shift < 0 THEN <<"number", m * Pow10(0 - shift), 0>>
        ELSE Reduced(m, shift)

\* a < b on two numbers
NumLess(a, b) ==
    IF a[1] = "inf" THEN a[2] < 0 /\ ~(b[1] = "inf" /\ b[2] < 0)
    ELSE IF b[1] = "inf" THEN b[2] > 0
    ELSE a[2] * Pow10(b[3]) < b[2] * Pow10(a[3])

\* the parser reads a cell as a boolean when it is TRUE or FALSE, compared
\* without regard to case
TrueValues == {<<"t","r","u","e">>}

FalseValues == {<<"f","a","l","s","e">>}

IsBoolText(t) == str_lower(t) \in TrueValues \cup FalseValues

\* the kind of values read_csv gives a name column, from all its cells: numbers
\* (int64, or float64 when a cell is NaN or has a decimal point; a column of
\* NaN only is float64 too), booleans (bool, or object holding True/False and
\* NaN), or texts (object); a column without cells is object
infer_dtype(cells) ==
    IF cells = <<>> THEN "object"
    ELSE IF \A i \in 1..Len(cells) :
                cells[i] \in NaValues \/ IsNumberText(cells[i]) THEN "number"
    ELSE IF \A i \in 1..Len(cells) :
                cells[i] \in NaValues \/ IsBoolText(cells[i]) THEN "bool"
    ELSE "object"

\* read_csv on one cell of a name column of the given kind
read_name(text, dtype) ==
    IF text \in NaValues THEN NaN
    ELSE IF dtype = "number" THEN number_value(text)
    ELSE IF dtype = "bool" THEN <<"bool", str_lower(text) \in TrueValues>>
    ELSE text

IsNumber(x) == x # NaN /\ x[1] \in {"number", "inf"}

IsBool(x) == x # NaN /\ x[1] = "bool"

IsStr(x) == x # NaN /\ x[1] \notin {"number", "inf", "bool"}

\* the order in which groupby (sort=True) lists the keys of a name column:
\* numbers by value, booleans False before True, texts as Python orders
\* them; in a column that holds both (after fillna('Unknown')) the numbers
\* and booleans come before the texts
NameLess(a, b) ==
    IF IsStr(a) /\ IsStr(b) THEN StrLess(a, b)
    ELSE IF IsStr(a) THEN FALSE
    ELSE IF IsStr(b) THEN TRUE
    ELSE IF IsNumber(a) /\ IsNumber(b) THEN NumLess(a, b)
    ELSE IsBool(a) /\ IsBool(b) /\ ~a[2] /\ b[2]

-----------------------------------------------------------------------------
(* Dates *)

IsLeap(y) == (y % 4 = 0 /\ y % 100 # 0) \/ y % 400 = 0

DaysInMonth(y, m) ==
    IF m = 2 THEN (IF IsLeap(y) THEN 29 ELSE 28)
    ELSE IF m \in {4, 6, 9, 11} THEN 30 ELSE 31

\* pd.to_datetime(cell, errors='coerce') on one cell: a text that names no
\* calendar day becomes NaT (the years of the inputs are all within the
\* range a Timestamp holds)
to_datetime(cell) ==
    IF cell = NaN THEN NaT
    ELSE IF /\ cell[2] \in 1..12
            /\ cell[3] \in 1..DaysInMonth(cell[1], cell[2])
         THEN cell
         ELSE NaT

\* the ordering of Timestamps, of monthly Periods <<y, m>> and of years <<y>>:
\* field by field
DateLess(a, b) ==
    \E k \in 1..Len(a) :
        /\ \A i \in 1..(k - 1) : a[i] = b[i]
        /\ a[k] < b[k]

\* Series.dt.year on one cell (NaN for NaT)
dt_year(ts) == IF ts = NaT THEN NaN ELSE Num(ts[1])

\* Series.dt.to_period('M') on one cell (NaT for NaT)
to_period_M(ts) == IF ts = NaT THEN NaT ELSE <<ts[1], ts[2]>>

-----------------------------------------------------------------------------
(* Series and group-by *)

RECURSIVE column_sum_blood_a(_)
\* df['blood_a'].sum(): the sum of a breakdown column over all the rows
column_sum_blood_a(df) ==
    IF df = <<>> THEN 0 ELSE df[1].blood_a + column_sum_blood_a(Tail(df))

RECURSIVE SumDaily(_)
\* Series.sum() of the 'daily' column of a frame
SumDaily(df) ==
    IF df = <<>> THEN 0 ELSE df[1].daily + SumDaily(Tail(df))

\* a set of Timestamps, Periods or years as an ascending sequence
SortedDates(S) ==
    [i \in 1..Cardinality(S) |->
        CHOOSE x \in S : Cardinality({y \in S : DateLess(y, x)}) = i - 1]

\* a set of names as an ascending sequence
SortedNames(S) ==
    [i \in 1..Cardinality(S) |->
        CHOOSE x \in S : Cardinality({y \in S : NameLess(y, x)}) = i - 1]

\* the rows of df whose key (keys is the key column, parallel to df) is k
RowsWithKey(df, keys, k) ==
    LET Pick[i \in 0..Len(df)] ==
            IF i = 0 THEN <<>>
            ELSE IF keys[i] = k THEN Append(Pick[i - 1], df[i]) ELSE Pick[i - 1]
    IN  Pick[Len(df)]

\* the groups' sums in the order ks of the group keys
GroupSum(df, keys, ks) ==
    [j \in 1..Len(ks) |->
        [key |-> ks[j], val |-> SumDaily(RowsWithKey(df, keys, ks[j]))]]

\* the group keys of groupby: the distinct keys that are not NaN/NaT
\* (dropna=True)
GroupKeys(keys) == {keys[i] : i \in 1..Len(keys)} \ {NaN}

DateColumn(df) == [i \in 1..Len(df) |-> df[i].date]

\* df.groupby('date')['daily'].sum().sort_index(): keys ascending (sort=True)
daily_sum(df) ==
    GroupSum(df, DateColumn(df), SortedDates(GroupKeys(DateColumn(df))))

YearColumn(df) == [i \in 1..Len(df) |-> dt_year(df[i].date)]

\* df.groupby(df['date'].dt.year)['daily'].sum()
yearly_sum(df) ==
    GroupSum(df, YearColumn(df), SortedDates(GroupKeys(YearColumn(df))))

MonthColumn(df) == [i \in 1..Len(df) |-> to_period_M(df[i].date)]

\* df.groupby(df['date'].dt.to_period('M'))['daily'].sum(), the grouping of
\* lines 235-236.  No run reaches those lines (see SocialGroups), so no step
\* of the script applies it.
monthly_sum(df) ==
    GroupSum(df, MonthColumn(df), SortedDates(GroupKeys(MonthColumn(df))))

HospitalColumn(df) == [i \in 1..Len(df) |-> df[i].hospital]

\* a grouping that counts the rows of one hospital, date and total once
hospital_sum_deduplicated(df) ==
    LET Firsts[i \in 0..Len(df)] ==
            IF i = 0 THEN <<>>
            ELSE IF \E j \in 1..(i - 1) : df[j] = df[i] THEN Firsts[i - 1]
                 ELSE Append(Firsts[i - 1], df[i])
        dd == Firsts[Len(df)]
    IN  GroupSum(dd, HospitalColumn(dd), SortedNames(GroupKeys(HospitalColumn(dd))))

\* facility_df.groupby('hospital')['daily'].sum()
hospital_sum(df) ==
    GroupSum(df, HospitalColumn(df), SortedNames(GroupKeys(HospitalColumn(df))))

-----------------------------------------------------------------------------
(* Section 4: facility vs state daily totals *)

SeriesKeys(s) == {s[i].key : i \in 1..Len(s)}

\* Series lookup after alignment on a wider index: NaN where the key is absent
Reindexed(s, k) ==
    IF k \in SeriesKeys(s)
    THEN Num(s[CHOOSE i \in 1..Len(s) : s[i].key = k].val)
    ELSE NaN

\* a subtraction that takes a missing left operand for 0
Subtract_left_filled(a, b) ==
    IF b = NaN THEN NaN
    ELSE IF a = NaN THEN Num(0 - b[1]) ELSE Num(a[1] - b[1])

\* float subtraction: NaN if either operand is NaN
Subtract(a, b) == IF a = NaN \/ b = NaN THEN NaN ELSE Num(a[1] - b[1])

\* x != 0 on a float cell: NaN != 0 is True
NotEqualZero(x) == x = NaN \/ x[1] # 0

\* a comparison that aligns the two series with fill_value=0
verification_frame_filled(f, s) ==
    LET dates == SortedDates(SeriesKeys(f) \cup SeriesKeys(s))
        at(x, d) == IF Reindexed(x, d) = NaN THEN Num(0) ELSE Reindexed(x, d)
    IN  [i \in 1..Len(dates) |->
            [date           |-> dates[i],
             facility_total |-> at(f, dates[i]),
             state_total    |-> at(s, dates[i]),
             difference     |-> Subtract(at(f, dates[i]), at(s, dates[i]))]]

\* pd.DataFrame({'facility_total': f, 'state_total': s}) followed by the
\* 'difference' column: the index is the sorted union of the two indexes
verification_frame(f, s) ==
    LET dates == SortedDates(SeriesKeys(f) \cup SeriesKeys(s))
    IN  [i \in 1..Len(dates) |->
            [date           |-> dates[i],
             facility_total |-> Reindexed(f, dates[i]),
             state_total    |-> Reindexed(s, dates[i]),
             difference     |-> Subtract(Reindexed(f, dates[i]),
                                         Reindexed(s, dates[i]))]]

\* the test written the wrong way round
IsMismatch_inverted(row) == ~NotEqualZero(row.difference)

IsMismatch(row) == NotEqualZero(row.difference)

\* verification_df[verification_df['difference'] != 0]
mismatch_rows(vdf) == SelectSeq(vdf, IsMismatch)

PreviewCap == 10

\* the whole frame printed instead of its head
head_uncapped(df, n) == df

\* DataFrame.head(n)
head(df, n) == SubSeq(df, 1, IF Len(df) < n THEN Len(df) ELSE n)

-----------------------------------------------------------------------------
(* Section 7: hospital ranking *)

Permutations(n) ==
    {p \in [1..n -> 1..n] : \A i, j \in 1..n : i # j => p[i] # p[j]}

\* the grouped result left unsorted
sort_values_missing(s) == {s}

\* Series.sort_values(ascending=False) with the default kind='quicksort':
\* the entries in non-increasing order of value.  quicksort is not a stable
\* sort, so the relative order of entries with equal values is whatever the
\* numpy build produces: every arrangement of the ties is a possible result.
sort_values_desc(s) ==
    {[i \in 1..Len(s) |-> s[p[i]]] : p \in
        {q \in Permutations(Len(s)) :
            \A i \in 1..Len(s) - 1 : s[q[i]].val >= s[q[i + 1]].val}}

-----------------------------------------------------------------------------
(* Sections 1 and 3: loading and cleaning *)

HospitalCells(csv) == [i \in 1..Len(csv) |-> csv[i].hospital]

StateCells(csv) == [i \in 1..Len(csv) |-> csv[i].state]

\* read_csv on a date cell: the empty cell becomes NaN
read_date(cell) == IF cell = <<>> THEN NaN ELSE cell

\* pd.read_csv('donations_facility.csv')
read_facility(csv) ==
    [i \in 1..Len(csv) |->
        [hospital |-> read_name(csv[i].hospital, infer_dtype(HospitalCells(csv))),
         date     |-> read_date(csv[i].date),
         daily    |-> csv[i].daily,
         blood_a  |-> csv[i].blood_a]]

\* pd.read_csv('donations_state.csv')
read_state(csv, columns) ==
    [i \in 1..Len(csv) |->
        IF "state" \in columns
        THEN [state   |-> read_name(csv[i].state, infer_dtype(StateCells(csv))),
              date    |-> read_date(csv[i].date),
              daily   |-> csv[i].daily,
              blood_a |-> csv[i].blood_a]
        ELSE [date    |-> read_date(csv[i].date),
              daily   |-> csv[i].daily,
              blood_a |-> csv[i].blood_a]]

\* Series.str raises AttributeError ("Can only use .str accessor with string
\* values") on a column that holds no text: one of numbers, of booleans or
\* of NaN only.  A column without cells has dtype object and is accepted.
StrAccessorRaises(df) ==
    df # <<>> /\ \A i \in 1..Len(df) : ~IsStr(df[i].state)

\* the comparison without str.lower()
is_nationwide_exact_case(row) == row.state = Malaysia

\* state_df['state'].str.lower().eq('malaysia'), one row: False for NaN
is_nationwide(row) == str_lower(row.state) = malaysia

KeepRow(row) == ~is_nationwide(row)

\* state_df[~state_df['state'].str.lower().eq('malaysia')].copy()
exclude_nationwide(df) == SelectSeq(df, KeepRow)

KeepParsed(row) == row.date # NaT

\* a parse that drops the rows whose date is NaT
parse_dates_dropna(df) ==
    SelectSeq([i \in 1..Len(df) |-> [df[i] EXCEPT !.date = to_datetime(@)]], KeepParsed)

\* df['date'] = pd.to_datetime(df['date'], errors='coerce')
parse_dates(df) ==
    [i \in 1..Len(df) |-> [df[i] EXCEPT !.date = to_datetime(@)]]

\* Series.fillna('Unknown') on one cell
fillna_unknown(x) == IF x = NaN THEN Unknown ELSE x

fill_hospital(df) ==
    [i \in 1..Len(df) |-> [df[i] EXCEPT !.hospital = fillna_unknown(@)]]

fill_state(df) ==
    [i \in 1..Len(df) |-> [df[i] EXCEPT !.state = fillna_unknown(@)]]

-----------------------------------------------------------------------------
(* A chart that stops the script on some files *)

\* read_csv gives every column of a file without rows the dtype object, and
\* so the sums of its 'daily' column; Series.plot raises TypeError ("no
\* numeric data to plot") on them
NoNumericData(csv) == Len(csv) = 0

-----------------------------------------------------------------------------
(* The script, block by block *)

\* lines 29-30
LoadData ==
    /\ pc = "load"
    /\ facility_df' = read_facility(facility_csv)
    /\ state_df' = read_state(state_csv, state_columns)
    /\ pc' = "filter"
    /\ UNCHANGED <<facility_csv, state_csv, state_columns, facility_daily_sum,
                   state_daily_sum, verification_df, mismatches,
                   mismatch_preview, facility_totals, yearly_facility,
                   yearly_state, facility_monthly, state_monthly,
                   facility_blood, state_blood>>

\* lines 33-34
ExcludeNationwide ==
    /\ pc = "filter"
    /\ IF "state" \in state_columns
       THEN IF StrAccessorRaises(state_df)
            THEN pc' = "raised_34" /\ UNCHANGED state_df
            ELSE pc' = "parse" /\ state_df' = exclude_nationwide(state_df)
       ELSE pc' = "parse" /\ UNCHANGED state_df
    /\ UNCHANGED <<facility_csv, state_csv, state_columns, facility_df,
                   facility_daily_sum, state_daily_sum, verification_df,
                   mismatches, mismatch_preview, facility_totals,
                   yearly_facility, yearly_state, facility_monthly,
                   state_monthly,
                   facility_blood, state_blood>>

\* lines 47-48
ParseDates ==
    /\ pc = "parse"
    /\ facility_df' = parse_dates(facility_df)
    /\ state_df' = parse_dates(state_df)
    /\ pc' = "fill"
    /\ UNCHANGED <<facility_csv, state_csv, state_columns, facility_daily_sum,
                   state_daily_sum, verification_df, mismatches,
                   mismatch_preview, facility_totals, yearly_facility,
                   yearly_state, facility_monthly, state_monthly,
                   facility_blood, state_blood>>

\* lines 55-57
FillNames ==
    /\ pc = "fill"
    /\ facility_df' = fill_hospital(facility_df)
    /\ state_df' = IF "state" \in state_columns
                   THEN fill_state(state_df) ELSE state_df
    /\ pc' = "daily"
    /\ UNCHANGED <<facility_csv, state_csv, state_columns, facility_daily_sum,
                   state_daily_sum, verification_df, mismatches,
                   mismatch_preview, facility_totals, yearly_facility,
                   yearly_state, facility_monthly, state_monthly,
                   facility_blood, state_blood>>

\* lines 71-72
DailySums ==
    /\ pc = "daily"
    /\ facility_daily_sum' = daily_sum(facility_df)
    /\ state_daily_sum' = daily_sum(state_df)
    /\ pc' = "verify"
    /\ UNCHANGED <<facility_csv, state_csv, state_columns, facility_df,
                   state_df, verification_df, mismatches, mismatch_preview,
                   facility_totals, yearly_facility, yearly_state,
                   facility_monthly, state_monthly,
                   facility_blood, state_blood>>

\* lines 75-79
Verification ==
    /\ pc = "verify"
    /\ verification_df' = verification_frame(facility_daily_sum, state_daily_sum)
    /\ pc' = "mismatch"
    /\ UNCHANGED <<facility_csv, state_csv, state_columns, facility_df,
                   state_df, facility_daily_sum, state_daily_sum, mismatches,
                   mismatch_preview, facility_totals, yearly_facility,
                   yearly_state, facility_monthly, state_monthly,
                   facility_blood, state_blood>>

\* lines 87-93: the mismatch count printed is len(mismatches)
Mismatches ==
    /\ pc = "mismatch"
    /\ mismatches' = mismatch_rows(verification_df)
    /\ mismatch_preview' = head(mismatch_rows(verification_df), PreviewCap)
    /\ pc' = "hospital"
    /\ UNCHANGED <<facility_csv, state_csv, state_columns, facility_df,
                   state_df, facility_daily_sum, state_daily_sum,
                   verification_df, facility_totals, yearly_facility,
                   yearly_state, facility_monthly, state_monthly,
                   facility_blood, state_blood>>

\* lines 127-134: the bar chart of line 129 raises for a facility file without
\* rows
FacilityTotals ==
    /\ pc = "hospital"
    /\ \E ranked \in sort_values_desc(hospital_sum(facility_df)) :
           facility_totals' = ranked
    /\ pc' = IF NoNumericData(facility_csv) THEN "raised_129" ELSE "yearly"
    /\ UNCHANGED <<facility_csv, state_csv, state_columns, facility_df,
                   state_df, facility_daily_sum, state_daily_sum,
                   verification_df, mismatches, mismatch_preview,
                   yearly_facility, yearly_state, facility_monthly,
                   state_monthly,
                   facility_blood, state_blood>>

\* lines 137-160: the line chart of line 142 raises for a state file without
\* rows (line 141 is reached only with a facility file that has rows)
Yearly ==
    /\ pc = "yearly"
    /\ yearly_facility' = yearly_sum(facility_df)
    /\ yearly_state' = yearly_sum(state_df)
    /\ pc' = IF NoNumericData(state_csv) THEN "raised_142" ELSE "blood"
    /\ UNCHANGED <<facility_csv, state_csv, state_columns, facility_df,
                   state_df, facility_daily_sum, state_daily_sum,
                   verification_df, mismatches, mismatch_preview,
                   facility_totals, facility_monthly, state_monthly,
                   facility_blood, state_blood>>

\* lines 163-191: the totals of the blood types and, computed and charted the
\* same way, of the four donation types
BloodTypes ==
    /\ pc = "blood"
    /\ facility_blood' = [blood_a |-> column_sum_blood_a(facility_df)]
    /\ state_blood' = [blood_a |-> column_sum_blood_a(state_df)]
    /\ pc' = "social"
    /\ UNCHANGED <<facility_csv, state_csv, state_columns, facility_df,
                   state_df, facility_daily_sum, state_daily_sum,
                   verification_df, mismatches, mismatch_preview,
                   facility_totals, yearly_facility, yearly_state,
                   facility_monthly, state_monthly>>

\* lines 194-198: the totals of the three social groups are charted at the
\* positions x = np.arange(len(blood_types)), four of them; plt.bar cannot
\* broadcast four positions against three heights and raises ValueError.
\* Every run that comes this far stops here: lines 199-246 never run.
SocialGroups ==
    /\ pc = "social"
    /\ pc' = "raised_198"
    /\ UNCHANGED <<facility_csv, state_csv, state_columns, facility_df,
                   state_df, facility_daily_sum, state_daily_sum,
                   verification_df, mismatches, mismatch_preview,
                   facility_totals, yearly_facility, yearly_state,
                   facility_monthly, state_monthly,
                   facility_blood, state_blood>>

Next ==
    \/ LoadData
    \/ ExcludeNationwide
    \/ ParseDates
    \/ FillNames
    \/ DailySums
    \/ Verification
    \/ Mismatches
    \/ FacilityTotals
    \/ Yearly
    \/ BloodTypes
    \/ SocialGroups

-----------------------------------------------------------------------------
(* Inputs *)

SeqsUpTo(S, n) == UNION {[1..k -> S] : k \in 0..n}

\* a row of a file; of its donations, all but one are of blood type A
FacilityRow(h, d, v) == [hospital |-> h, date |-> d, daily |-> v, blood_a |-> v - 1]

StateRow(st, d, v) == [state |-> st, date |-> d, daily |-> v, blood_a |-> v - 1]

FullHeader == {"state", "date", "daily"}

D1 == <<2023, 1, 1>>

D2 == <<2023, 1, 2>>

D3 == <<2023, 2, 1>>

D4 == <<2024, 1, 1>>

\* "2023-02-30": a text that names no calendar day
BadDate == <<2023, 2, 30>>

\* the state before the script runs, for given files
Start(fcsv, scsv, cols) ==
    /\ facility_csv = fcsv
    /\ state_csv = scsv
    /\ state_columns = cols
    /\ pc = "load"
    /\ facility_df = <<>>
    /\ state_df = <<>>
    /\ facility_daily_sum = <<>>
    /\ state_daily_sum = <<>>
    /\ verification_df = <<>>
    /\ mismatches = <<>>
    /\ mismatch_preview = <<>>
    /\ facility_totals = <<>>
    /\ yearly_facility = <<>>
    /\ yearly_state = <<>>
    /\ facility_blood = <<>>
    /\ state_blood = <<>>
    /\ facility_monthly = <<>>
    /\ state_monthly = <<>>

\* the scenarios of the specification's section 8
ScenarioNationwide ==
    [f |-> <<FacilityRow(H1, D1, 10), FacilityRow(H2, D1, 5)>>,
     s |-> <<StateRow(RegionA, D1, 14), StateRow(Malaysia, D1, 14)>>]

ScenarioFacilityOnly ==
    [f |-> <<FacilityRow(H1, D1, 50), FacilityRow(H1, D2, 7)>>,
     s |-> <<StateRow(RegionA, D2, 7), StateRow(RegionA, D3, 4)>>]

ScenarioRanking ==
    [f |-> <<FacilityRow(H1, D1, 10), FacilityRow(H1, D1, 20),
             FacilityRow(H2, D1, 5)>>,
     s |-> <<>>]

Scenarios == {ScenarioNationwide, ScenarioFacilityOnly, ScenarioRanking}

\* facility files whose hospital column read_csv does not keep as text
\* (numbers: "9", "10", "9.0", " 10"; numbers and an empty cell; booleans;
\* booleans and a NULL cell; numbers with exponents and infinity; booleans
\* in mixed case), and files whose names hold other characters than letters
\* and digits or are numbers beside texts
FacilityTypedNames ==
    {<<FacilityRow(<<"9">>, D1, 1), FacilityRow(<<"1","0">>, D1, 2),
       FacilityRow(<<"9",".","0">>, D2, 3), FacilityRow(<<" ","1","0">>, D2, 4)>>,
     <<FacilityRow(<<"-","1",".","5">>, D1, 2), FacilityRow(<<>>, D1, 3),
       FacilityRow(<<"0","7">>, D2, 2)>>,
     <<FacilityRow(<<"T","r","u","e">>, D1, 1),
       FacilityRow(<<"F","A","L","S","E">>, D1, 1),
       FacilityRow(<<"t","r","u","e">>, D2, 4)>>,
     <<FacilityRow(<<"T","r","u","e">>, D1, 1),
       FacilityRow(<<"N","U","L","L">>, D1, 2),
       FacilityRow(<<"f","a","l","s","e">>, D2, 2)>>,
     <<FacilityRow(<<"A"," ","B">>, D1, 1), FacilityRow(<<"A","-","B">>, D1, 1),
       FacilityRow(<<"A","_","b">>, D2, 1), FacilityRow(<<"n","a","n">>, D2, 1)>>,
     <<FacilityRow(<<"1","0">>, D1, 3), FacilityRow(<<"9">>, D1, 3),
       FacilityRow(H1, D2, 3), FacilityRow(<<"T","r","u","e">>, D2, 1)>>,
     <<FacilityRow(<<"1","e","5">>, D1, 1), FacilityRow(<<"2">>, D1, 7),
       FacilityRow(<<"2","0","E","-","1">>, D2, 2),
       FacilityRow(<<"-","I","n","f">>, D2, 3)>>,
     <<FacilityRow(<<"t","R","u","e">>, D1, 1),
       FacilityRow(<<"f","a","l","s","e">>, D1, 2),
       FacilityRow(<<"T","r","U","E">>, D2, 4)>>}

\* state files whose state column read_csv does not keep as text
StateTypedNames ==
    {<<StateRow(<<"1">>, D1, 1), StateRow(<<"2">>, D1, 2)>>,
     <<StateRow(<<"N","U","L","L">>, D1, 1), StateRow(<<"n","a","n">>, D1, 2)>>,
     <<StateRow(<<"T","r","u","e">>, D1, 1), StateRow(<<"F","a","l","s","e">>, D1, 2)>>,
     <<StateRow(<<"T","r","u","e">>, D1, 1), StateRow(<<>>, D1, 2)>>,
     <<StateRow(<<"1">>, D1, 1), StateRow(Malaysia, D1, 2),
       StateRow(<<"n","u","l","l">>, D2, 3)>>,
     <<StateRow(<<"1","e","5">>, D1, 1), StateRow(<<"2","e","3">>, D1, 2)>>,
     <<StateRow(<<"t","R","u","e">>, D1, 1), StateRow(<<"f","A","l","s","e">>, D1, 2)>>,
     <<StateRow(<<"i","n","f">>, D1, 1), StateRow(<<"1">>, D1, 2)>>}

MaxFacRows == 2

MaxStateRows == 2

ReconFacilityRows == {FacilityRow(H1, d, v) : d \in {D1, D2}, v \in {1, 2}}

ReconStateRows ==
    {StateRow(RegionA, d, v) : d \in {D1, D2}, v \in {1, 2}}
        \cup {StateRow(MALAYSIA, D1, 1)}

\* a state file without a 'state' column
NoStateColumn == [f |-> <<FacilityRow(H1, D1, 2)>>,
                  s |-> <<[date |-> D1, daily |-> 1, blood_a |-> 0],
                          [date |-> D1, daily |-> 1, blood_a |-> 1]>>]

\* inputs for the comparison of the daily totals
InitRecon ==
    \/ \E f \in SeqsUpTo(ReconFacilityRows, MaxFacRows),
          s \in SeqsUpTo(ReconStateRows, MaxStateRows) :
            Start(f, s, FullHeader)
    \/ \E sc \in Scenarios : Start(sc.f, sc.s, FullHeader)
    \/ Start(NoStateColumn.f, NoStateColumn.s, {"date", "daily"})
    \/ \E s \in StateTypedNames : Start(ScenarioNationwide.f, s, FullHeader)

Spec == InitRecon /\ [][Next]_vars

MaxGroupRows == 3

GroupFacilityRows ==
    {FacilityRow(H1, D1, 1), FacilityRow(H1, D1, 2), FacilityRow(H2, D1, 1),
     FacilityRow(<<>>, D1, 1), FacilityRow(<<>>, D1, 2), FacilityRow(Unknown, D1, 2)}

\* a state file with a missing name beside the nationwide and other names
GroupStateFile ==
    <<StateRow(<<>>, D1, 1), StateRow(Malaysia, D1, 1), StateRow(RegionA, D2, 2)>>

\* more state files with missing names, among them one with no name at all
GroupStateFiles ==
    {<<>>,
     <<StateRow(<<>>, D1, 1), StateRow(Malaysia, D1, 1), StateRow(Unknown, D2, 2),
       StateRow(NA, D2, 1)>>,
     <<StateRow(<<>>, D1, 1), StateRow(RegionA, D1, 1)>>,
     <<StateRow(<<>>, D1, 1), StateRow(NA, D1, 1)>>}

\* a facility file that writes a missing hospital as NA
FacilityWithNA ==
    <<FacilityRow(NA, D1, 3), FacilityRow(Unknown, D1, 4), FacilityRow(H1, D1, 7),
      FacilityRow(<<>>, D2, 5)>>

\* inputs for the per-hospital totals
InitGroup ==
    \/ \E f \in SeqsUpTo(GroupFacilityRows, MaxGroupRows) :
            Start(f, GroupStateFile, FullHeader)
    \/ \E s \in GroupStateFiles : Start(FacilityWithNA, s, FullHeader)
    \/ Start(ScenarioRanking.f, ScenarioRanking.s, FullHeader)
    \/ \E f \in FacilityTypedNames : Start(f, GroupStateFile, FullHeader)
    \/ \E s \in StateTypedNames : Start(FacilityWithNA, s, FullHeader)

SpecGroup == InitGroup /\ [][Next]_vars

MaxPeriodRows == 3

PeriodFacilityRows ==
    {FacilityRow(H1, D1, 1), FacilityRow(H1, D1, 2), FacilityRow(H1, D2, 1),
     FacilityRow(H1, D3, 2), FacilityRow(H1, D4, 1), FacilityRow(H1, BadDate, 2),
     FacilityRow(H1, <<>>, 1)}

PeriodStateFiles ==
    {<<>>,
     <<StateRow(RegionA, D1, 1), StateRow(RegionA, D2, 2), StateRow(RegionA, D3, 3),
       StateRow(Malaysia, D3, 6), StateRow(RegionA, BadDate, 4),
       StateRow(RegionA, D4, 5)>>,
     <<StateRow(RegionA, BadDate, 1), StateRow(RegionA, <<>>, 2)>>}

\* inputs for the totals by day, month and year
InitPeriod ==
    \E f \in SeqsUpTo(PeriodFacilityRows, MaxPeriodRows), s \in PeriodStateFiles :
        Start(f, s, FullHeader)

SpecPeriod == InitPeriod /\ [][Next]_vars

MaxDays == 12

Day(k) == <<2023, 1, k>>

MaxMatched == 2

\* a facility file with one row for each of the first n days of January 2023,
\* latest first, of total 1 on at most MaxMatched of the days and 2 on the
\* others, and a state file with one row of total 1 for each of the days
LongFacilityFiles(n) ==
    {[i \in 1..n |-> FacilityRow(H1, Day(n + 1 - i),
                                 IF (n + 1 - i) \in M THEN 1 ELSE 2)] :
        M \in {S \in SUBSET (1..n) : Cardinality(S) <= MaxMatched}}

LongStateFile(n) == [i \in 1..n |-> StateRow(RegionA, Day(i), 1)]

\* inputs for the list of mismatched days
InitPreview ==
    \/ \E n \in 0..MaxDays : \E f \in LongFacilityFiles(n) :
            Start(f, LongStateFile(n), FullHeader)
    \/ \E sc \in Scenarios : Start(sc.f, sc.s, FullHeader)
    \/ \E f \in SeqsUpTo(ReconFacilityRows, 2), s \in SeqsUpTo(ReconStateRows, 1) :
            Start(f, s, FullHeader)

SpecPreview == InitPreview /\ [][Next]_vars

-----------------------------------------------------------------------------
(* Vocabulary of the properties *)

Blocks ==
    <<"load", "filter", "parse", "fill", "daily", "verify", "mismatch",
      "hospital", "yearly", "blood", "social">>

\* the number of blocks whose assignments have been made, stops included:
\* line 34 raises before the filter's assignment, lines 129, 142 and 198
\* after the assignments of their blocks
BlocksRun ==
    IF pc = "raised_34" THEN 1
    ELSE IF pc = "raised_129" THEN 8
    ELSE IF pc = "raised_142" THEN 9
    ELSE IF pc = "raised_198" THEN 11
    ELSE PosIn(Blocks, pc) - 1

\* the assignments of the block labelled b have been made
Ran(b) == BlocksRun >= PosIn(Blocks, b)

\* the script has stopped
Stopped == pc \in {"raised_34", "raised_129", "raised_142", "raised_198"}

\* the calendar days the input files name
CalendarDays == {Day(k) : k \in 1..31} \cup {D3, D4}

HasState == "state" \in state_columns

\* a text equal to "malaysia" up to the case of its letters
IsNationwideName(text) ==
    /\ Len(text) = Len(malaysia)
    /\ \A i \in 1..Len(malaysia) :
          text[i] \in {malaysia[i], UpperLetters[PosIn(LowerLetters, malaysia[i])]}

\* a name cell of a file that holds no name
IsMissingName(text) == text \in NaValues

\* the hospital name of row i of the facility file, as loaded
LoadedHospital(i) == read_facility(facility_csv)[i].hospital

RECURSIVE SumAt(_, _)
\* the sum of the daily totals of the rows of file at the positions I
SumAt(file, I) ==
    IF I = {} THEN 0
    ELSE LET i == CHOOSE j \in I : TRUE
         IN  file[i].daily + SumAt(file, I \ {i})

RECURSIVE SumVals(_, _)
\* the sum of the values of the entries of series at the positions I
SumVals(series, I) ==
    IF I = {} THEN 0
    ELSE LET i == CHOOSE j \in I : TRUE
         IN  series[i].val + SumVals(series, I \ {i})

\* the rows of the state file that are not the nationwide row
RegionRows ==
    {i \in 1..Len(state_csv) : ~(HasState /\ IsNationwideName(state_csv[i].state))}

FacilityDates == SeriesKeys(facility_daily_sum)

StateDates == SeriesKeys(state_daily_sum)

OneSided(d) == (d \in FacilityDates) # (d \in StateDates)

VerificationRow(d) ==
    verification_df[CHOOSE i \in 1..Len(verification_df) : verification_df[i].date = d]

IsMismatched(d) == \E i \in 1..Len(mismatches) : mismatches[i].date = d

-----------------------------------------------------------------------------
(* C1 *)

\* C1 as stated: a date present in only one of the two daily aggregates has
\* total 0 on the missing side, its difference is facility_total minus
\* state_total computed with that 0, and it is reported as mismatched.
C1_MissingSideIsZero ==
    Ran("mismatch") =>
        \A d \in FacilityDates \cup StateDates :
            OneSided(d) =>
                LET r == VerificationRow(d)
                    f == IF d \in FacilityDates
                         THEN Reindexed(facility_daily_sum, d)[1] ELSE 0
                    st == IF d \in StateDates
                          THEN Reindexed(state_daily_sum, d)[1] ELSE 0
                IN  /\ r.facility_total = Num(f)
                    /\ r.state_total = Num(st)
                    /\ r.difference = Num(f - st)
                    /\ IsMismatched(d)

\* C1 amended: a date present in only one of the two daily aggregates has the
\* present side's total, NaN (not 0) on the missing side and NaN as its
\* difference, and it is reported as mismatched; the facility-only date with
\* total 50 gives facility_total 50, state_total NaN, difference NaN.
C1_MissingSideIsNaN ==
    Ran("mismatch") =>
        /\ \A d \in FacilityDates \cup StateDates :
              OneSided(d) =>
                LET r == VerificationRow(d)
                IN  /\ d \in FacilityDates =>
                          /\ r.facility_total = Reindexed(facility_daily_sum, d)
                          /\ r.facility_total # NaN
                          /\ r.state_total = NaN
                    /\ d \in StateDates =>
                          /\ r.state_total = Reindexed(state_daily_sum, d)
                          /\ r.state_total # NaN
                          /\ r.facility_total = NaN
                    /\ r.difference = NaN
                    /\ IsMismatched(d)
        /\ (facility_csv = ScenarioFacilityOnly.f /\ state_csv = ScenarioFacilityOnly.s) =>
              /\ VerificationRow(D1) = [date |-> D1, facility_total |-> Num(50),
                                        state_total |-> NaN, difference |-> NaN]
              /\ IsMismatched(D1)

C1_Witness ==
    /\ pc = "raised_198"
    /\ \E i \in 1..Len(mismatches) :
          /\ mismatches[i].facility_total = Num(50)
          /\ mismatches[i].state_total = NaN
    /\ \E i \in 1..Len(mismatches) :
          /\ mismatches[i].facility_total = NaN
          /\ mismatches[i].state_total # NaN

-----------------------------------------------------------------------------
(* C2 *)

\* the positions of the rows of the state file that are not the nationwide
\* row, in file order
RegionRowSeq ==
    [j \in 1..Cardinality(RegionRows) |->
        CHOOSE i \in RegionRows : Cardinality({k \in RegionRows : k < i}) = j - 1]

\* C2: the filter drops exactly the rows of the state file whose name is
\* "malaysia" up to case, before any aggregation: the rows kept are the other
\* rows in file order, and for every date state_total is the sum of the daily
\* totals of the kept rows of that date.  For facility rows (H1, d, 10),
\* (H2, d, 5) and state rows (RegionA, d, 14), (Malaysia, d, 14) the row of d
\* is facility_total 15, state_total 14, difference 1, mismatched.
C2_NationwideRowsDropped ==
    /\ (Ran("filter") /\ HasState) =>
          /\ Len(state_df) = Len(RegionRowSeq)
          /\ \A j \in 1..Len(state_df) :
                /\ state_df[j].daily = state_csv[RegionRowSeq[j]].daily
                /\ state_df[j].state \in
                      {read_cell(state_csv[RegionRowSeq[j]].state), Unknown}
                /\ ~IsNationwideName(state_df[j].state)
    /\ (Ran("verify") /\ HasState) =>
          \A d \in CalendarDays :
            LET rows == {i \in RegionRows : state_csv[i].date = d}
            IN  IF rows = {}
                THEN \A i \in 1..Len(verification_df) :
                        verification_df[i].date = d =>
                            verification_df[i].state_total = NaN
                ELSE VerificationRow(d).state_total = Num(SumAt(state_csv, rows))
    /\ (Ran("mismatch") /\ facility_csv = ScenarioNationwide.f
                        /\ state_csv = ScenarioNationwide.s) =>
          /\ verification_df =
                <<[date |-> D1, facility_total |-> Num(15),
                   state_total |-> Num(14), difference |-> Num(1)]>>
          /\ IsMismatched(D1)

C2_Witness ==
    /\ pc = "raised_198"
    /\ \E i \in 1..Len(state_csv) : state_csv[i].state = Malaysia
    /\ Len(state_df) = 1
    /\ Len(mismatches) = 1
    /\ mismatches[1].state_total = Num(14)
    /\ mismatches[1].difference = Num(1)

-----------------------------------------------------------------------------
(* C3 *)

Negated(x) == IF x = NaN THEN NaN ELSE Num(0 - x[1])

\* C3: comparing the two daily aggregates the other way round gives the same
\* dates, negates every difference (NaN, the difference of a date that only
\* one aggregate has, stays NaN) and leaves every date's matched/mismatched
\* flag as it was.
C3_Antisymmetric ==
    Ran("verify") =>
        LET swapped == verification_frame(state_daily_sum, facility_daily_sum)
        IN  /\ Len(swapped) = Len(verification_df)
            /\ \A i \in 1..Len(verification_df) :
                  /\ swapped[i].date = verification_df[i].date
                  /\ swapped[i].difference = Negated(verification_df[i].difference)
                  /\ IsMismatch(swapped[i]) = IsMismatch(verification_df[i])

C3_Witness ==
    /\ pc = "raised_198"
    /\ FacilityDates # StateDates
    /\ \E i \in 1..Len(verification_df) : verification_df[i].difference = NaN
    /\ \E i \in 1..Len(verification_df) :
          /\ verification_df[i].difference # NaN
          /\ verification_df[i].difference[1] < 0

-----------------------------------------------------------------------------
(* C4 *)

\* C4: when the facility and the state daily aggregates are identical, every
\* date's difference is 0 and the mismatch count is 0.
C4_IdenticalAggregatesMatch ==
    (Ran("mismatch") /\ facility_daily_sum = state_daily_sum) =>
        /\ Len(verification_df) = Len(facility_daily_sum)
        /\ \A i \in 1..Len(verification_df) :
              verification_df[i].difference = Num(0)
        /\ Len(mismatches) = 0

C4_Witness ==
    /\ pc = "raised_198"
    /\ facility_daily_sum = state_daily_sum
    /\ Len(facility_daily_sum) = 2
    /\ facility_daily_sum[1].val # facility_daily_sum[2].val
    /\ Len(verification_df) = 2
    /\ Len(mismatches) = 0

-----------------------------------------------------------------------------
(* C7 *)

\* the name a row goes by in the groupings, from its name as loaded
GroupName(name) == IF name = NaN THEN Unknown ELSE name

UnknownFacilityRows ==
    {i \in 1..Len(facility_csv) : GroupName(LoadedHospital(i)) = Unknown}

\* C7: when the script has stopped, no row has a missing name: a row whose
\* hospital or state name was missing carries the name "Unknown"; the
\* nationwide filter has removed no such row; and, where the per-hospital
\* totals are made, their "Unknown" entry is the sum of the daily totals of the
\* rows whose name was missing or is literally "Unknown".  A run that line 34
\* stops (a 'state' column that holds no text, as when every name is missing)
\* ends before lines 55-57, with the missing names still missing.
C7_MissingNamesBecomeUnknown ==
    Stopped =>
        /\ Len(facility_df) = Len(facility_csv)
        /\ \A i \in 1..Len(facility_df) :
              /\ facility_df[i].hospital # NaN
              /\ facility_df[i].hospital = GroupName(LoadedHospital(i))
              /\ IsMissingName(facility_csv[i].hospital) =>
                    facility_df[i].hospital = Unknown
        /\ HasState =>
              /\ \A j \in 1..Len(state_df) : state_df[j].state # NaN
              /\ \A i \in 1..Len(state_csv) :
                    IsMissingName(state_csv[i].state) =>
                      /\ i \in RegionRows
                      /\ Len(state_df) >= PosIn(RegionRowSeq, i)
                      /\ state_df[PosIn(RegionRowSeq, i)].state = Unknown
                      /\ state_df[PosIn(RegionRowSeq, i)].daily = state_csv[i].daily
        /\ Ran("hospital") =>
              IF UnknownFacilityRows = {}
              THEN \A i \in 1..Len(facility_totals) : facility_totals[i].key # Unknown
              ELSE \E i \in 1..Len(facility_totals) :
                      /\ facility_totals[i].key = Unknown
                      /\ facility_totals[i].val = SumAt(facility_csv, UnknownFacilityRows)

-----------------------------------------------------------------------------
(* C8 *)

HospitalNames == {GroupName(LoadedHospital(i)) : i \in 1..Len(facility_csv)}

RowsOfHospital(h) ==
    {i \in 1..Len(facility_csv) : GroupName(LoadedHospital(i)) = h}

\* C8: the per-hospital totals hold exactly one entry per distinct hospital
\* name, its value the sum of the daily totals of all the rows of that name
\* (rows of the same hospital and date are all summed), in order of
\* non-increasing total; (H1, 10), (H1, 20), (H2, 5) gives
\* [(H1, 30), (H2, 5)].
C8_HospitalTotals ==
    Ran("hospital") =>
        /\ Len(facility_totals) = Cardinality(HospitalNames)
        /\ SeriesKeys(facility_totals) = HospitalNames
        /\ \A i \in 1..Len(facility_totals) :
              facility_totals[i].val =
                  SumAt(facility_csv, RowsOfHospital(facility_totals[i].key))
        /\ \A i \in 1..Len(facility_totals) - 1 :
              facility_totals[i].val >= facility_totals[i + 1].val
        /\ facility_csv = ScenarioRanking.f =>
              facility_totals = <<[key |-> H1, val |-> 30], [key |-> H2, val |-> 5]>>

C8_Witness ==
    /\ pc = "raised_142"
    /\ facility_csv = ScenarioRanking.f
    /\ facility_totals[1] = [key |-> H1, val |-> 30]
    /\ Len(facility_totals) = 2

-----------------------------------------------------------------------------
(* C10 *)

\* C10 as stated: hospitals with equal totals appear in the ranking in their
\* original key order, the order of the grouped result before sorting.
C10_TiesKeepKeyOrder ==
    Ran("hospital") =>
        \A i, j \in 1..Len(facility_totals) :
            (i < j /\ facility_totals[i].val = facility_totals[j].val) =>
                NameLess(facility_totals[i].key, facility_totals[j].key)

\* C10 amended: hospitals with equal totals appear next to one another in the
\* ranking, in an order the sort does not determine (the default sort is not
\* stable, so the original key order is not guaranteed); the ranking is a
\* rearrangement of the grouped result.
C10_TiesAdjacentInSomeOrder ==
    Ran("hospital") =>
        /\ \A i, j, k \in 1..Len(facility_totals) :
              (i < k /\ k < j /\ facility_totals[i].val = facility_totals[j].val) =>
                  facility_totals[k].val = facility_totals[i].val
        /\ Len(facility_totals) = Len(hospital_sum(facility_df))
        /\ {facility_totals[i] : i \in 1..Len(facility_totals)} =
              {hospital_sum(facility_df)[i] : i \in 1..Len(facility_totals)}

C10_Witness ==
    /\ pc = "raised_198"
    /\ Len(facility_totals) = 3
    /\ facility_totals[1].val = facility_totals[2].val
    /\ facility_totals[2].val > facility_totals[3].val
    /\ NameLess(facility_totals[2].key, facility_totals[1].key)

-----------------------------------------------------------------------------
(* C5 *)

ValidRows(df) == {i \in 1..Len(df) : df[i].date # NaT}

\* the day, month and year totals of one cleaned table agree
PeriodTotalsAgree(df, daily, monthly, yearly) ==
    /\ SeriesKeys(monthly) = {<<df[i].date[1], df[i].date[2]>> : i \in ValidRows(df)}
    /\ Len(monthly) = Cardinality(SeriesKeys(monthly))
    /\ SeriesKeys(yearly) = {<<df[i].date[1]>> : i \in ValidRows(df)}
    /\ Len(yearly) = Cardinality(SeriesKeys(yearly))
    /\ \A i \in 1..Len(monthly) :
          monthly[i].val =
              SumVals(daily, {j \in 1..Len(daily) :
                                /\ daily[j].key[1] = monthly[i].key[1]
                                /\ daily[j].key[2] = monthly[i].key[2]})
    /\ \A i \in 1..Len(yearly) :
          yearly[i].val =
              SumVals(monthly, {j \in 1..Len(monthly) :
                                  monthly[j].key[1] = yearly[i].key[1]})

\* C5: once the script has made its totals (it has come to line 198, where
\* every run on two files with rows ends), for each cleaned table every
\* monthly total is the sum of the daily
\* totals of the dates of that month, every yearly total is the sum of the
\* monthly totals of that year, and the months and years that appear are
\* exactly those of the rows with a valid date.
C5_CoarserTotalsAreSums ==
    pc = "raised_198" =>
        /\ PeriodTotalsAgree(facility_df, facility_daily_sum, facility_monthly,
                             yearly_facility)
        /\ PeriodTotalsAgree(state_df, state_daily_sum, state_monthly,
                             yearly_state)

-----------------------------------------------------------------------------
(* C6 *)

ValidFacilityRows ==
    {i \in 1..Len(facility_csv) : facility_csv[i].date \in CalendarDays}

ValidRegionRows == {i \in RegionRows : state_csv[i].date \in CalendarDays}

AllPositions(series) == 1..Len(series)

\* C6: a row whose date cannot be parsed does not stop the cleaning and stays
\* in the table with the date NaT, so the row count is that of the file (less
\* the nationwide rows) and the row still counts in the per-hospital totals;
\* it counts in no daily or yearly total (nor in a monthly one: the grouping
\* of lines 235-236, which no run reaches, gives it no month either), and it
\* makes no period key and no row of the comparison.
C6_InvalidDatesKeptButUngrouped ==
    /\ (Stopped /\ ~Ran("daily")) =>
          /\ pc = "raised_34"
          /\ infer_dtype(StateCells(state_csv)) # "object"
    /\ Ran("parse") =>
          /\ Len(facility_df) = Len(facility_csv)
          /\ Len(state_df) = Cardinality(RegionRows)
          /\ \A i \in 1..Len(facility_csv) :
                facility_df[i].date =
                    IF i \in ValidFacilityRows THEN facility_csv[i].date ELSE NaT
          /\ \A j \in 1..Len(state_df) :
                state_df[j].date =
                    IF RegionRowSeq[j] \in ValidRegionRows
                    THEN state_csv[RegionRowSeq[j]].date ELSE NaT
    /\ Ran("daily") =>
          /\ FacilityDates = {facility_csv[i].date : i \in ValidFacilityRows}
          /\ StateDates = {state_csv[i].date : i \in ValidRegionRows}
          /\ SumVals(facility_daily_sum, AllPositions(facility_daily_sum))
                = SumAt(facility_csv, ValidFacilityRows)
          /\ SumVals(state_daily_sum, AllPositions(state_daily_sum))
                = SumAt(state_csv, ValidRegionRows)
    /\ Ran("verify") =>
          /\ {verification_df[i].date : i \in 1..Len(verification_df)}
                = FacilityDates \cup StateDates
          /\ Len(verification_df) = Cardinality(FacilityDates \cup StateDates)
    /\ Ran("hospital") =>
          SumVals(facility_totals, AllPositions(facility_totals))
              = SumAt(facility_csv, 1..Len(facility_csv))
    /\ Ran("blood") =>
          /\ facility_blood.blood_a =
                SumAt(facility_csv, 1..Len(facility_csv)) - Len(facility_csv)
          /\ state_blood.blood_a =
                SumAt(state_csv, RegionRows) - Cardinality(RegionRows)
    /\ Ran("yearly") =>
          /\ SeriesKeys(yearly_facility) =
                {<<facility_csv[i].date[1]>> : i \in ValidFacilityRows}
          /\ SumVals(yearly_facility, AllPositions(yearly_facility))
                = SumAt(facility_csv, ValidFacilityRows)
          /\ SumVals(yearly_state, AllPositions(yearly_state))
                = SumAt(state_csv, ValidRegionRows)
          /\ SeriesKeys(monthly_sum(facility_df)) =
                {<<facility_csv[i].date[1], facility_csv[i].date[2]>> :
                    i \in ValidFacilityRows}
          /\ SumVals(monthly_sum(facility_df), AllPositions(monthly_sum(facility_df)))
                = SumAt(facility_csv, ValidFacilityRows)
          /\ SumVals(monthly_sum(state_df), AllPositions(monthly_sum(state_df)))
                = SumAt(state_csv, ValidRegionRows)

C6_Witness ==
    /\ pc = "raised_198"
    /\ \E i, j, k \in 1..Len(facility_csv) :
          /\ facility_csv[i].date = BadDate
          /\ facility_csv[j].date = <<>>
          /\ facility_csv[k].date = D1
    /\ Len(facility_df) = 3
    /\ Len(verification_df) = 1
    /\ Len(yearly_facility) = 1
    /\ facility_totals[1].val > yearly_facility[1].val
    /\ facility_blood.blood_a > yearly_facility[1].val - 1
    /\ Len(state_df) = 2
    /\ state_daily_sum = <<>>

-----------------------------------------------------------------------------
(* C9 *)

\* the dates of the comparison whose difference is not exactly 0
MismatchedDates ==
    {d \in FacilityDates \cup StateDates : VerificationRow(d).difference # Num(0)}

\* C9: the mismatch count is the number of dates of the union of the two
\* daily aggregates whose difference is not exactly 0 (a difference of 1 or
\* -1 counts), and the preview is the first min(10, count) mismatched dates
\* in ascending date order.
C9_MismatchCountAndPreview ==
    Ran("mismatch") =>
        /\ {verification_df[i].date : i \in 1..Len(verification_df)}
              = FacilityDates \cup StateDates
        /\ Len(mismatches) = Cardinality(MismatchedDates)
        /\ \A d \in FacilityDates \cup StateDates :
              VerificationRow(d).difference \in {Num(1), Num(0 - 1)} => IsMismatched(d)
        /\ Len(mismatch_preview) =
              IF Len(mismatches) < 10 THEN Len(mismatches) ELSE 10
        /\ \A i \in 1..Len(mismatch_preview) :
              /\ mismatch_preview[i].date \in MismatchedDates
              /\ mismatch_preview[i] = VerificationRow(mismatch_preview[i].date)
              /\ Cardinality({d \in MismatchedDates :
                                DateLess(d, mismatch_preview[i].date)}) = i - 1

C9_Witness ==
    /\ pc = "raised_198"
    /\ Len(verification_df) = 12
    /\ Len(mismatches) = 11
    /\ Len(mismatch_preview) = 10
    /\ ~IsMismatch(verification_df[1])
    /\ mismatch_preview[10].date = Day(11)

=============================================================================
